---- MODULE Spec2Model ----
(***************************************************************************)
(* A model of the prompt registry of langgraph_agent                       *)
(* (src/src/prompts/registry.py): the PromptTemplate model (construction,  *)
(* format, validate_variables), the PromptRegistry built on it and the     *)
(* lazily built global registry; and of its configuration                  *)
(* (src/src/config): the cached Settings and the TableNameManager.         *)
(*                                                                         *)
(* Every Python str is a sequence of one-character strings, so that        *)
(* str.format and re.findall are computed character by character.          *)
(***************************************************************************)
EXTENDS Integers, Sequences, FiniteSets, TLC

VARIABLES
    tmpl,      \* the PromptTemplate under study (SpecTemplate), or NoTemplate
    op,        \* the last call made: its name and its arguments
    ret,       \* what that call returned or raised
    prompts,   \* PromptRegistry._prompts: an insertion-ordered dict
    before,    \* history: _prompts as it was when the last call began
    \* get_prompt_registry and the threads that call it
    global_registry,  \* _global_registry: NoRegistry or an instance
    registries,       \* the PromptRegistry instances built so far: their _prompts
    default_dir,      \* the default prompts directory on disk
    pc,               \* per thread: "idle" or the line of get_prompt_registry it is at
    target,           \* per thread: the instance its load_from_directory runs on
    file,             \* per thread: the index of the file that load is at
    held,             \* per thread: the instance its last call returned
    outcome,          \* per thread: how its last call ended
    sawNone,          \* history, per thread: its last check found the global unset
    raced,            \* history: a check found the global unset while another
                      \* thread was between its own check and its assignment
    completed,        \* history: the instances whose load of the default
                      \* directory has finished without raising
    \* the process environment, get_settings and the TableNameManager
    environ,          \* os.environ: APP_ENVIRONMENT
    dotenv,           \* the .env file: APP_ENVIRONMENT
    cache,            \* the lru_cache of get_settings: NoSettings or an instance
    settings,         \* the Settings instances built so far
    manager,          \* the TableNameManager last built, or NoManager
    cached_before,    \* history: the cache and the number of instances built
                      \* when the last call began
    since_clear,      \* history: the instances get_settings returned since the
                      \* last cache_clear
    \* get_session: one `with get_session() as session:` block at a time
    line,             \* where get_session stands: "idle", "yield", "commit",
                      \* "rollback", "close" or "done"
    calls,            \* history: the calls made on the session, in order
    raisedBy,         \* history: what each step of this block raised
    propagated        \* the exception the with statement raised, or NoException

singletonVars ==
    <<global_registry, registries, default_dir, pc, target, file, held,
      outcome, sawNone, raced, completed>>

configVars ==
    <<environ, dotenv, cache, settings, manager, cached_before, since_clear>>

sessionVars == <<line, calls, raisedBy, propagated>>

\* what the calls on one PromptTemplate or one PromptRegistry leave alone
outsideRegistry == <<singletonVars, configVars, sessionVars>>

vars == <<tmpl, op, ret, prompts, before, singletonVars, configVars, sessionVars>>

----------------------------------------------------------------------------
(* Bounds of the model *)

MaxTokens == 3     \* a template body is at most this many tokens
MaxVars == 2       \* a declared variable list is at most this long
MaxFiles == 2      \* a directory holds at most this many .yaml files
MaxSettings == 2   \* at most this many Settings instances are built
MaxTables == 2     \* a list of table names is at most this long
MaxAdds == 2       \* the body of a with block adds at most this many objects

----------------------------------------------------------------------------
(* Outcomes of a call: a returned value or a raised exception *)

Ok(v) == [kind |-> "ok", value |-> v]

\* detail: what the exception's message names
Raise(type, site, detail) ==
    [kind |-> "raise", type |-> type, site |-> site, detail |-> detail]

ToSet(s) == {s[i] : i \in DOMAIN s}

RECURSIVE SeqsUpTo(_, _)
SeqsUpTo(S, n) ==
    IF n = 0 THEN {<<>>}
    ELSE LET prev == SeqsUpTo(S, n - 1)
         IN  prev \cup {Append(s, x) : s \in prev, x \in S}

----------------------------------------------------------------------------
(* Characters and strings *)

Alphabet == {"{", "}", "a", "b", "1", "-"}

\* \w of the regular expression: letters, digits, underscore
IsWordChar(c) == c \in {"a", "b", "1"}

\* a decimal digit, as str.format reads a positional index
IsDigit(c) == c = "1"

Tokens ==
    {<<c>> : c \in Alphabet} \cup {<<"{", "a", "}">>, <<"{", "b", "}">>}

RECURSIVE BodiesUpTo(_)
BodiesUpTo(n) ==
    IF n = 0 THEN {<<>>}
    ELSE LET prev == BodiesUpTo(n - 1)
         IN  prev \cup {b \o t : b \in prev, t \in Tokens}

Bodies == BodiesUpTo(MaxTokens)

VarNames == {<<"a">>, <<"b">>}

VarLists == SeqsUpTo(VarNames, MaxVars)

\* values bound to a keyword: plain text, and text that itself holds braces
Values == {<<"x">>, <<"{", "b", "}">>}

\* the keyword arguments of format: a mapping from some keys to values
Kwargs == UNION {[K -> Values] : K \in SUBSET VarNames}

----------------------------------------------------------------------------
(* PromptTemplate: construction (pydantic BaseModel) *)

NoTemplate == [name |-> <<>>, version |-> <<>>, description |-> <<>>,
               template |-> <<>>, variables |-> <<>>]

\* a str-typed constructor argument: not given, a str, or a value of another type
Absent == [shape |-> "absent", s |-> <<>>]
Str(s) == [shape |-> "str", s |-> s]
NotStr == [shape |-> "int", s |-> <<>>]

\* the `variables` argument: its shape and, when iterable, its elements in order
VAbsent == [shape |-> "absent", elems |-> <<>>]
VNone == [shape |-> "none", elems |-> <<>>]
VStr(s) == [shape |-> "str", elems |-> <<Str(s)>>]
VList(elems) == [shape |-> "list", elems |-> elems]
VDict(keys) == [shape |-> "dict", elems |-> keys]
VInt == [shape |-> "int", elems |-> <<>>]

DefaultVersion == <<"1", ".", "0", ".", "0">>

\* Field(..., min_length=1) / Field(default=...) of a str field:
\* the validated value, or "invalid"
StrField(f, required, minLength, default) ==
    CASE f.shape = "absent" ->
            IF required THEN [valid |-> FALSE, v |-> <<>>]
            ELSE [valid |-> TRUE, v |-> default]
      [] f.shape = "str" ->
            [valid |-> Len(f.s) >= minLength, v |-> f.s]
      [] OTHER -> [valid |-> FALSE, v |-> <<>>]

\* the mode="before" validator of `variables`
ensure_list(v) ==
    CASE v.shape = "none" -> Ok(<<>>)
      [] v.shape = "str" -> Ok(v.elems)
      [] v.shape \in {"list", "dict"} -> Ok(v.elems)       \* list(v)
      [] OTHER -> Raise("TypeError", "ensure_list", {})   \* list(5)

\* list[str] validation of what ensure_list returned
ListOfStr(elems) ==
    [valid |-> \A i \in DOMAIN elems : elems[i].shape = "str",
     v |-> [i \in DOMAIN elems |-> elems[i].s]]

\* PromptTemplate(args...): fields are validated in declaration order and their
\* errors collected into one ValidationError; an exception of another type
\* raised by a validator is not collected, it propagates as it is.
PromptTemplate(args) ==
    LET name == StrField(args.name, TRUE, 1, <<>>)
        version == StrField(args.version, FALSE, 0, DefaultVersion)
        description == StrField(args.description, FALSE, 0, <<>>)
        template == StrField(args.template, TRUE, 1, <<>>)
        coerced == IF args.variables.shape = "absent" THEN Ok(<<>>)
                   ELSE ensure_list(args.variables)
    IN  IF coerced.kind = "raise" THEN coerced
        ELSE LET variables == ListOfStr(coerced.value)
             IN  IF /\ name.valid /\ version.valid /\ description.valid
                    /\ template.valid /\ variables.valid
                 THEN Ok([name |-> name.v, version |-> version.v,
                          description |-> description.v,
                          template |-> template.v, variables |-> variables.v])
                 ELSE Raise("ValidationError", "PromptTemplate", {})

----------------------------------------------------------------------------
(* str.format with keyword arguments, as CPython's MarkupIterator computes it *)

\* the index of the first brace at or after i, or Len(body) + 1
RECURSIVE NextBrace(_, _)
NextBrace(body, i) ==
    IF i > Len(body) THEN i
    ELSE IF body[i] \in {"{", "}"} THEN i
    ELSE NextBrace(body, i + 1)

AllDigits(name) == \A i \in DOMAIN name : IsDigit(name[i])

RECURSIVE StrFormatFrom(_, _, _, _)
StrFormatFrom(body, kwargs, i, out) ==
    IF i > Len(body) THEN Ok(out)
    ELSE IF body[i] = "}" THEN
        IF i < Len(body) /\ body[i + 1] = "}"
        THEN StrFormatFrom(body, kwargs, i + 2, Append(out, "}"))
        ELSE Raise("ValueError", "str.format", {})      \* single '}'
    ELSE IF body[i] = "{" THEN
        IF i = Len(body) THEN Raise("ValueError", "str.format", {})  \* single '{'
        ELSE IF body[i + 1] = "{"
        THEN StrFormatFrom(body, kwargs, i + 2, Append(out, "{"))
        ELSE LET k == NextBrace(body, i + 1)
                 name == SubSeq(body, i + 1, k - 1)
             IN  IF k > Len(body) \/ body[k] = "{"
                 THEN Raise("ValueError", "str.format", {})  \* no closing '}'
                 ELSE IF name = <<>> \/ AllDigits(name)
                 THEN Raise("IndexError", "str.format", {})  \* positional field
                 ELSE IF name \notin DOMAIN kwargs
                 THEN Raise("KeyError", "str.format", {name})
                 ELSE StrFormatFrom(body, kwargs, k + 1, out \o kwargs[name])
    ELSE StrFormatFrom(body, kwargs, i + 1, Append(out, body[i]))

\* a slip: the scan starts one character late
StrFormat_OffByOne(body, kwargs) == StrFormatFrom(body, kwargs, 2, <<>>)

StrFormat(body, kwargs) == StrFormatFrom(body, kwargs, 1, <<>>)

----------------------------------------------------------------------------
(* PromptTemplate.format *)

\* a slip: the declared variables are not checked before substituting
format_NoMissingCheck(self, kwargs) == StrFormat(self.template, kwargs)

\* a slip: the difference is taken both ways, so an extra binding is reported
format_StrictKeys(self, kwargs) ==
    LET missing == (ToSet(self.variables) \ DOMAIN kwargs)
                   \cup (DOMAIN kwargs \ ToSet(self.variables))
    IN  IF missing # {}
        THEN Raise("KeyError", "missing", missing)
        ELSE StrFormat(self.template, kwargs)

format(self, kwargs) ==
    LET missing == ToSet(self.variables) \ DOMAIN kwargs
    IN  IF missing # {}
        THEN Raise("KeyError", "missing", missing)
        ELSE StrFormat(self.template, kwargs)

----------------------------------------------------------------------------
(* PromptTemplate.validate_variables *)

\* the end of the maximal run of word characters starting at i (i - 1 if none)
RECURSIVE WordRunEnd(_, _)
WordRunEnd(body, i) ==
    IF i > Len(body) \/ ~IsWordChar(body[i]) THEN i - 1
    ELSE WordRunEnd(body, i + 1)

\* where a match of \{(\w+)\} starting at i ends, or 0 if there is none
MatchEnd(body, i) ==
    IF body[i] # "{" THEN 0
    ELSE LET e == WordRunEnd(body, i + 1)
         IN  IF e >= i + 1 /\ e < Len(body) /\ body[e + 1] = "}"
             THEN e + 1 ELSE 0

\* re.findall(r"\{(\w+)\}", body): leftmost, non-overlapping matches
RECURSIVE FindAllFrom(_, _)
FindAllFrom(body, i) ==
    IF i > Len(body) THEN <<>>
    ELSE LET e == MatchEnd(body, i)
         IN  IF e = 0 THEN FindAllFrom(body, i + 1)
             ELSE <<SubSeq(body, i + 1, e - 1)>> \o FindAllFrom(body, e + 1)

\* a slip: re.search in place of re.findall, only the first match is kept
FindAll_FirstOnly(body) ==
    LET all == FindAllFrom(body, 1)
    IN  IF all = <<>> THEN <<>> ELSE <<Head(all)>>

FindAll(body) == FindAllFrom(body, 1)

Message(category, names) == [category |-> category, names |-> names]

validate_variables(self) ==
    LET placeholders == ToSet(FindAll(self.template))
        declared == ToSet(self.variables)
        undeclared == placeholders \ declared
        unused == declared \ placeholders
        errors1 == IF undeclared # {}
                   THEN <<Message("undeclared", undeclared)>> ELSE <<>>
    IN  IF unused # {}
        THEN Append(errors1, Message("unused", unused))
        ELSE errors1

----------------------------------------------------------------------------
(* The constructor arguments the model draws *)

Args(name, version, description, template, variables) ==
    [name |-> name, version |-> version, description |-> description,
     template |-> template, variables |-> variables]

\* arguments of every shape, over a few bodies
ShapeArgs ==
    {Args(n, v, d, t, vs) :
        n \in {Absent, Str(<<>>), Str(<<"p">>), NotStr},
        v \in {Absent, Str(<<"2">>)},
        d \in {Absent, Str(<<"d">>)},
        t \in {Absent, Str(<<>>), Str(<<"{", "a", "}">>), NotStr},
        vs \in {VAbsent, VNone, VStr(<<"a">>), VInt,
                VList(<<>>), VList(<<Str(<<"a">>)>>),
                VList(<<Str(<<"a">>), Str(<<"b">>)>>),
                VList(<<Str(<<"a">>), NotStr>>),
                VDict(<<Str(<<"a">>)>>)}}

\* well-shaped arguments over every body and declared list of the bounds
BodyArgs ==
    {Args(Str(<<"p">>), Absent, Absent, Str(b),
          VList([i \in DOMAIN vl |-> Str(vl[i])])) :
        b \in Bodies, vl \in VarLists}

CtorArgs == ShapeArgs \cup BodyArgs

----------------------------------------------------------------------------
(* The state of the components a specification does not exercise *)

Threads == {"T1", "T2"}

\* _global_registry = None: the instances are numbered from 1
NoRegistry == 0

\* no thread has called get_prompt_registry
SingletonIdle ==
    /\ global_registry = NoRegistry
    /\ registries = <<>>
    /\ pc = [t \in Threads |-> "idle"]
    /\ target = [t \in Threads |-> NoRegistry]
    /\ file = [t \in Threads |-> 0]
    /\ held = [t \in Threads |-> NoRegistry]
    /\ outcome = [t \in Threads |-> [kind |-> "none"]]
    /\ sawNone = [t \in Threads |-> FALSE]
    /\ raced = FALSE
    /\ completed = {}

\* an environment variable or an optional argument: not given, or a value
Unset == [set |-> FALSE, v |-> <<>>]
Set(v) == [set |-> TRUE, v |-> v]

\* the cache of get_settings holds nothing: the instances are numbered from 1
NoSettings == 0

\* no TableNameManager has been built
NoManager == [env |-> <<>>, layer |-> "None"]

\* get_settings has not been called and no TableNameManager was built
ConfigIdle ==
    /\ cache = NoSettings
    /\ settings = <<>>
    /\ manager = NoManager
    /\ cached_before = [cache |-> NoSettings, built |-> 0]
    /\ since_clear = {}

\* nothing is raised
NoException == "none"

\* no `with get_session()` block has been entered
SessionIdle ==
    /\ line = "idle"
    /\ calls = <<>>
    /\ raisedBy = [step \in {"factory", "body", "commit", "rollback", "close"}
                      |-> NoException]
    /\ propagated = NoException

OutsideRegistryIdle ==
    /\ SessionIdle
    /\ SingletonIdle
    /\ default_dir = [exists |-> FALSE, entries |-> <<>>]
    /\ ConfigIdle
    /\ environ = Unset
    /\ dotenv = Unset

----------------------------------------------------------------------------
(* SpecTemplate: one template is constructed, then formatted and validated *)

InitTemplate ==
    /\ tmpl = NoTemplate
    /\ op = [name |-> "init"]
    /\ ret = Ok(<<>>)
    /\ prompts = <<>>
    /\ before = <<>>
    /\ OutsideRegistryIdle

Construct ==
    /\ op.name = "init"
    /\ \E args \in CtorArgs :
        LET r == PromptTemplate(args)
        IN  /\ op' = [name |-> "construct", args |-> args]
            /\ ret' = r
            /\ tmpl' = IF r.kind = "ok" THEN r.value ELSE NoTemplate
    /\ UNCHANGED <<prompts, before, outsideRegistry>>

\* a template was constructed and no method has been called on it yet: format
\* and validate_variables leave the template as it is, so one call each from
\* the constructed state covers every call
Constructed == op.name = "construct" /\ ret.kind = "ok"

Format ==
    /\ Constructed
    /\ \E kwargs \in Kwargs :
        /\ op' = [name |-> "format", kwargs |-> kwargs]
        /\ ret' = format(tmpl, kwargs)
    /\ UNCHANGED <<tmpl, prompts, before, outsideRegistry>>

ValidateVariables ==
    /\ Constructed
    /\ op' = [name |-> "validate_variables"]
    /\ ret' = Ok(validate_variables(tmpl))
    /\ UNCHANGED <<tmpl, prompts, before, outsideRegistry>>

NextTemplate == Construct \/ Format \/ ValidateVariables

SpecTemplate == InitTemplate /\ [][NextTemplate]_vars

----------------------------------------------------------------------------
(* dict: insertion-ordered, one entry per key *)

DictKeys(d) == [i \in DOMAIN d |-> d[i].key]

DictHas(d, k) == \E i \in DOMAIN d : d[i].key = k

DictGet(d, k) == d[CHOOSE i \in DOMAIN d : d[i].key = k].value

\* a slip: the entry is appended even when the key is present
DictSet_AlwaysAppend(d, k, v) == Append(d, [key |-> k, value |-> v])

\* a slip: the mapping is rebuilt around the new entry
DictSet_Rebuild(d, k, v) == <<[key |-> k, value |-> v]>>

\* d[k] = v: the value is replaced where the key stands, or appended
DictSet(d, k, v) ==
    IF DictHas(d, k)
    THEN [i \in DOMAIN d |-> IF d[i].key = k THEN [key |-> k, value |-> v]
                             ELSE d[i]]
    ELSE Append(d, [key |-> k, value |-> v])

----------------------------------------------------------------------------
(* PromptRegistry *)

\* a slip: the entry is keyed by another field of the template
register_KeyedByVersion(d, prompt) == DictSet(d, prompt.version, prompt)

\* self._prompts[prompt.name] = prompt
register(d, prompt) == DictSet(d, prompt.name, prompt)

\* a slip: the error lists nothing
get_NoAvailable(d, name) ==
    IF ~DictHas(d, name)
    THEN Raise("KeyError", "get", [name |-> name, available |-> <<>>])
    ELSE Ok(DictGet(d, name))

get(d, name) ==
    IF ~DictHas(d, name)
    THEN Raise("KeyError", "get",
               [name |-> name, available |-> DictKeys(d)])
    ELSE Ok(DictGet(d, name))

list_prompts(d) == DictKeys(d)

\* what a .yaml file holds: it cannot be opened, it is not YAML, it is YAML
\* but no mapping, or it is a mapping passed on as the constructor's arguments
NoArgs == Args(Absent, Absent, Absent, Absent, VAbsent)
Unreadable == [kind |-> "unreadable", args |-> NoArgs]
Malformed == [kind |-> "malformed", args |-> NoArgs]
NotMapping == [kind |-> "notmapping", args |-> NoArgs]
Mapping(args) == [kind |-> "mapping", args |-> args]

\* a slip: the template is returned without being registered
load_from_yaml_NoRegister(d, doc) ==
    IF doc.kind = "mapping"
    THEN [prompts |-> d, result |-> PromptTemplate(doc.args)]
    ELSE [prompts |-> d, result |-> Raise("OSError", "open", {})]

\* a slip: the name is registered before the template is validated
load_from_yaml_RegistersEarly(d, doc) ==
    IF doc.kind = "mapping" /\ doc.args.name.shape = "str"
    THEN LET r == PromptTemplate(doc.args)
         IN  [prompts |-> DictSet(d, doc.args.name.s,
                                  IF r.kind = "ok" THEN r.value
                                  ELSE NoTemplate),
              result |-> r]
    ELSE [prompts |-> d, result |-> Raise("OSError", "open", {})]

\* load_from_yaml: the registry afterwards and the outcome
load_from_yaml(d, doc) ==
    CASE doc.kind = "unreadable" ->
            [prompts |-> d, result |-> Raise("OSError", "open", {})]
      [] doc.kind = "malformed" ->
            [prompts |-> d, result |-> Raise("YAMLError", "safe_load", {})]
      [] doc.kind = "notmapping" ->
            [prompts |-> d, result |-> Raise("TypeError", "PromptTemplate", {})]
      [] OTHER ->
            LET r == PromptTemplate(doc.args)
            IN  IF r.kind = "raise" THEN [prompts |-> d, result |-> r]
                ELSE [prompts |-> register(d, r.value), result |-> r]

\* an entry of a directory: a .yaml file directly inside it, a file with
\* another extension, or a .yaml file inside a subdirectory
YamlFile(doc) == [where |-> "yaml", doc |-> doc]
OtherFile(doc) == [where |-> "other", doc |-> doc]
NestedYamlFile(doc) == [where |-> "nested", doc |-> doc]

MatchesGlob(entry) == entry.where = "yaml"

\* a slip: the pattern matches every file of the directory
glob_AnyFile(entries) ==
    LET Here(entry) == entry.where # "nested"
        matched == SelectSeq(entries, Here)
    IN  [i \in DOMAIN matched |-> matched[i].doc]

\* directory.glob("*.yaml"): the .yaml files directly inside the directory, in
\* the order the file system yields them (none when there is no directory)
glob(entries) ==
    LET matched == SelectSeq(entries, MatchesGlob)
    IN  [i \in DOMAIN matched |-> matched[i].doc]

\* load_from_directory: the files in the order glob yields them
RECURSIVE LoadFrom(_, _, _, _)
LoadFrom(d, files, i, loaded) ==
    IF i > Len(files) THEN [prompts |-> d, result |-> Ok(loaded)]
    ELSE LET r == load_from_yaml(d, files[i])
         IN  IF r.result.kind = "raise" THEN r
             ELSE LoadFrom(r.prompts, files, i + 1,
                           Append(loaded, r.result.value))

\* a slip: a file that fails is skipped and the error raised after the loop
RECURSIVE LoadAllFrom(_, _, _, _, _)
LoadAllFrom(d, files, i, loaded, failure) ==
    IF i > Len(files)
    THEN [prompts |-> d,
          result |-> IF failure.kind = "raise" THEN failure ELSE Ok(loaded)]
    ELSE LET r == load_from_yaml(d, files[i])
         IN  IF r.result.kind = "raise"
             THEN LoadAllFrom(d, files, i + 1, loaded,
                              IF failure.kind = "raise" THEN failure
                              ELSE r.result)
             ELSE LoadAllFrom(r.prompts, files, i + 1,
                              Append(loaded, r.result.value), failure)

load_from_directory_LoadsTheRest(d, entries) ==
    LoadAllFrom(d, glob(entries), 1, <<>>, Ok(<<>>))

load_from_directory(d, entries) == LoadFrom(d, glob(entries), 1, <<>>)

\* a slip: every template is reported, consistent or not
validate_all_KeepsEmpty(d) ==
    [i \in DOMAIN d |-> [key |-> d[i].key,
                         value |-> validate_variables(d[i].value)]]

\* validate_all: a dict from name to its non-empty list of messages
RECURSIVE ValidateFrom(_, _, _)
ValidateFrom(d, i, errors) ==
    IF i > Len(d) THEN errors
    ELSE LET prompt_errors == validate_variables(d[i].value)
         IN  ValidateFrom(d, i + 1,
                 IF prompt_errors # <<>>
                 THEN DictSet(errors, d[i].key, prompt_errors)
                 ELSE errors)

validate_all(d) == ValidateFrom(d, 1, <<>>)

----------------------------------------------------------------------------
(* The templates and files the registry model draws *)

PromptNames == {<<"p">>, <<"q">>}

RegBodies == {<<"{", "a", "}">>, <<"-">>}

RegArgs ==
    {Args(Str(n), Absent, Absent, Str(b), VList(<<Str(<<"a">>)>>)) :
        n \in PromptNames, b \in RegBodies}

RegTemplates == {PromptTemplate(a).value : a \in RegArgs}

Docs ==
    {Mapping(a) : a \in RegArgs}
    \cup {Unreadable, Malformed, NotMapping,
          Mapping(Args(Absent, Absent, Absent, Str(<<"-">>), VAbsent)),
          Mapping(Args(Str(<<"p">>), Absent, Absent, Str(<<>>), VAbsent)),
          \* name and template given, `version: 1.0` read by YAML as a float
          Mapping(Args(Str(<<"p">>), NotStr, Absent, Str(<<"-">>), VAbsent))}

\* the files a directory listing is drawn from: two files that declare the
\* same name, one that declares another, and one that fails to load
DirDocs ==
    {Mapping(Args(Str(<<"p">>), Absent, Absent, Str(<<"{", "a", "}">>),
                  VList(<<Str(<<"a">>)>>))),
     Mapping(Args(Str(<<"p">>), Absent, Absent, Str(<<"-">>),
                  VList(<<Str(<<"a">>)>>))),
     Mapping(Args(Str(<<"q">>), Absent, Absent, Str(<<"-">>),
                  VList(<<Str(<<"a">>)>>))),
     Malformed}

\* the entries a directory is drawn from: the .yaml files above and two
\* well-formed files that the pattern does not match
DirEntries ==
    {YamlFile(doc) : doc \in DirDocs}
    \cup {OtherFile(Mapping(Args(Str(<<"q">>), Absent, Absent,
                                 Str(<<"{", "a", "}">>),
                                 VList(<<Str(<<"a">>)>>)))),
          NestedYamlFile(Mapping(Args(Str(<<"q">>), Absent, Absent,
                                      Str(<<"{", "a", "}">>),
                                      VList(<<Str(<<"a">>)>>))))}

\* the directories: their entries in the order the file system yields them
\* (a directory that does not exist yields none)
Listings == SeqsUpTo(DirEntries, MaxFiles)

----------------------------------------------------------------------------
(* SpecRegistry: one PromptRegistry and the calls made on it *)

InitRegistry ==
    /\ tmpl = NoTemplate
    /\ op = [name |-> "init"]
    /\ ret = Ok(<<>>)
    /\ prompts = <<>>          \* __init__: self._prompts = {}
    /\ before = <<>>
    /\ OutsideRegistryIdle

Register ==
    \E prompt \in RegTemplates :
        /\ op' = [name |-> "register", prompt |-> prompt]
        /\ prompts' = register(prompts, prompt)
        /\ ret' = Ok("None")
        /\ before' = prompts
        /\ UNCHANGED <<tmpl, outsideRegistry>>

Get ==
    \E name \in PromptNames :
        /\ op' = [name |-> "get", arg |-> name]
        /\ ret' = get(prompts, name)
        /\ before' = prompts
        /\ UNCHANGED <<tmpl, prompts, outsideRegistry>>

ListPrompts ==
    /\ op' = [name |-> "list_prompts"]
    /\ ret' = Ok(list_prompts(prompts))
    /\ before' = prompts
    /\ UNCHANGED <<tmpl, prompts, outsideRegistry>>

LoadFromYaml ==
    \E doc \in Docs :
        LET r == load_from_yaml(prompts, doc)
        IN  /\ op' = [name |-> "load_from_yaml", doc |-> doc]
            /\ prompts' = r.prompts
            /\ ret' = r.result
            /\ before' = prompts
            /\ UNCHANGED <<tmpl, outsideRegistry>>

LoadFromDirectory ==
    \E entries \in Listings :
        LET r == load_from_directory(prompts, entries)
        IN  /\ op' = [name |-> "load_from_directory", entries |-> entries]
            /\ prompts' = r.prompts
            /\ ret' = r.result
            /\ before' = prompts
            /\ UNCHANGED <<tmpl, outsideRegistry>>

ValidateAll ==
    /\ op' = [name |-> "validate_all"]
    /\ ret' = Ok(validate_all(prompts))
    /\ before' = prompts
    /\ UNCHANGED <<tmpl, prompts, outsideRegistry>>

NextRegistry ==
    \/ Register
    \/ Get
    \/ ListPrompts
    \/ LoadFromYaml
    \/ LoadFromDirectory
    \/ ValidateAll

SpecRegistry == InitRegistry /\ [][NextRegistry]_vars

----------------------------------------------------------------------------
(* What the claims speak of, stated without the code's algorithms *)

\* the declared variable names of the template under study
Declared == {v \in VarNames : \E i \in DOMAIN tmpl.variables : tmpl.variables[i] = v}

\* body[i..j] is a brace-delimited, non-empty run of word characters
IsPlaceholderAt(body, i, j) ==
    /\ i \in DOMAIN body /\ j \in DOMAIN body /\ j > i + 1
    /\ body[i] = "{" /\ body[j] = "}"
    /\ \A k \in (i + 1)..(j - 1) : IsWordChar(body[k])

PlaceholderSpans(body) ==
    {sp \in (DOMAIN body) \X (DOMAIN body) : IsPlaceholderAt(body, sp[1], sp[2])}

\* the set of placeholders in a body
Placeholders(body) ==
    {SubSeq(body, sp[1] + 1, sp[2] - 1) : sp \in PlaceholderSpans(body)}

\* the names that stand between an opening brace and the next closing brace
BraceNames(body) ==
    {SubSeq(body, q[1] + 1, q[2] - 1) :
        q \in {q \in (DOMAIN body) \X (DOMAIN body) :
                  /\ q[1] < q[2] /\ body[q[1]] = "{" /\ body[q[2]] = "}"
                  /\ \A k \in (q[1] + 1)..(q[2] - 1) :
                        body[k] \notin {"{", "}"}}}

\* every brace of the body delimits a placeholder, and no placeholder is a number
PlainBody(body) ==
    /\ \A k \in DOMAIN body :
          body[k] \in {"{", "}"} =>
              \E sp \in PlaceholderSpans(body) : k \in {sp[1], sp[2]}
    /\ \A n \in Placeholders(body) : \E i \in DOMAIN n : ~IsDigit(n[i])

\* the body with each {variable} placeholder that has a binding replaced by
\* the bound value, the rest of the text kept as it is
RECURSIVE ReplaceAllFrom(_, _, _)
ReplaceAllFrom(body, kwargs, i) ==
    IF i > Len(body) THEN <<>>
    ELSE LET ends == {j \in DOMAIN body :
                        /\ IsPlaceholderAt(body, i, j)
                        /\ SubSeq(body, i + 1, j - 1) \in DOMAIN kwargs}
         IN  IF ends = {}
             THEN <<body[i]>> \o ReplaceAllFrom(body, kwargs, i + 1)
             ELSE LET j == CHOOSE j \in ends : TRUE
                  IN  kwargs[SubSeq(body, i + 1, j - 1)]
                          \o ReplaceAllFrom(body, kwargs, j + 1)

ReplaceAll(body, kwargs) == ReplaceAllFrom(body, kwargs, 1)

\* small is kwargs restricted to some of its keys
Extends(kwargs, small) ==
    /\ DOMAIN small \subseteq DOMAIN kwargs
    /\ \A k \in DOMAIN small : small[k] = kwargs[k]

----------------------------------------------------------------------------
(* Claims about PromptTemplate.format *)

\* C1: whenever a declared variable is not among the binding keys, format
\* raises the missing-variable KeyError naming exactly the declared variables
\* that are not bound, and returns no string.
C1_MissingVariableError ==
    (op.name = "format" /\ Declared \ DOMAIN op.kwargs # {}) =>
        /\ ret.kind = "raise"
        /\ ret.type = "KeyError" /\ ret.site = "missing"
        /\ ret.detail = Declared \ DOMAIN op.kwargs

\* C1 witness: format was called with one declared variable bound and the
\* other not, and raised.
C1_Witness ==
    /\ op.name = "format"
    /\ Declared = VarNames
    /\ DOMAIN op.kwargs = {<<"a">>}
    /\ ret.kind = "raise" /\ ret.detail = {<<"b">>}

\* C2 as stated, read on the bodies most favourable to it (every brace
\* delimits a placeholder): whatever placeholders the body holds, bindings
\* that cover the declared variables make format return the body with its
\* placeholders replaced.
C2_AnyBodyFormats ==
    ( /\ op.name = "format"
      /\ Declared \subseteq DOMAIN op.kwargs
      /\ PlainBody(tmpl.template) ) =>
        /\ ret.kind = "ok"
        /\ ret.value = ReplaceAll(tmpl.template, op.kwargs)

\* C2 amended: when every brace of the body delimits a {name} placeholder
\* whose name is not a number, and the bindings cover the declared variables
\* and every placeholder of the body, format returns the body with each
\* placeholder replaced by its bound value, inserted as it is.
C2_PlainBodyFormats ==
    ( /\ op.name = "format"
      /\ Declared \subseteq DOMAIN op.kwargs
      /\ PlainBody(tmpl.template)
      /\ Placeholders(tmpl.template) \subseteq DOMAIN op.kwargs ) =>
        /\ ret.kind = "ok"
        /\ ret.value = ReplaceAll(tmpl.template, op.kwargs)

\* C2 witness: a body with two different placeholders and literal text was
\* formatted, one bound value itself holding braces.
C2_Witness ==
    /\ op.name = "format"
    /\ PlainBody(tmpl.template)
    /\ Placeholders(tmpl.template) = VarNames
    /\ \E k \in DOMAIN tmpl.template : tmpl.template[k] = "-"
    /\ Declared \subseteq DOMAIN op.kwargs
    /\ DOMAIN op.kwargs = VarNames
    /\ op.kwargs[<<"a">>] = <<"{", "b", "}">>
    /\ ret.kind = "ok"

\* C3 as stated: extending bindings that cover the declared variables with
\* any extra keys never changes the outcome of format.
C3_AnyExtraIgnored ==
    op.name = "format" =>
        \A small \in Kwargs :
            (Declared \subseteq DOMAIN small /\ Extends(op.kwargs, small)) =>
                format(tmpl, small) = ret

\* C3 amended: extending bindings that cover the declared variables with
\* extra keys, none of which stands between braces in the body, never changes
\* the outcome of format (same string, or same failure).
C3_UnreferencedExtraIgnored ==
    op.name = "format" =>
        \A small \in Kwargs :
            ( /\ Declared \subseteq DOMAIN small
              /\ Extends(op.kwargs, small)
              /\ (DOMAIN op.kwargs \ DOMAIN small)
                     \cap BraceNames(tmpl.template) = {} ) =>
                format(tmpl, small) = ret

\* C3 witness: format returned a string for bindings that hold a key beyond
\* the declared variables, which the body does not reference.
C3_Witness ==
    /\ op.name = "format"
    /\ ret.kind = "ok"
    /\ Declared = {<<"a">>}
    /\ Placeholders(tmpl.template) = {<<"a">>}
    /\ DOMAIN op.kwargs = VarNames

----------------------------------------------------------------------------
(* Claims about PromptTemplate.validate_variables *)

CountOf(msgs, category) ==
    Cardinality({i \in DOMAIN msgs : msgs[i].category = category})

\* C4: validate_variables never raises; it returns one "undeclared" message
\* iff some placeholder of the body is not declared, one "unused" message iff
\* some declared variable is no placeholder of the body, the undeclared one
\* first; the result is empty iff placeholders and declared variables agree.
C4_ValidateVariables ==
    op.name = "validate_variables" =>
        /\ ret.kind = "ok"
        /\ LET P == Placeholders(tmpl.template)
               msgs == ret.value
               nUndeclared == IF P \ Declared # {} THEN 1 ELSE 0
               nUnused == IF Declared \ P # {} THEN 1 ELSE 0
           IN  /\ CountOf(msgs, "undeclared") = nUndeclared
               /\ CountOf(msgs, "unused") = nUnused
               /\ Len(msgs) = nUndeclared + nUnused
               /\ Len(msgs) = 2 => msgs[1].category = "undeclared"
               /\ \A i \in DOMAIN msgs :
                     msgs[i].names = IF msgs[i].category = "undeclared"
                                     THEN P \ Declared ELSE Declared \ P
               /\ (msgs = <<>>) <=> (P = Declared)

\* C4 witness: validate_variables returned both messages, for a body that
\* holds the same placeholder twice and a declared variable it never uses.
C4_Witness ==
    /\ op.name = "validate_variables"
    /\ Len(ret.value) = 2
    /\ Len(tmpl.template) = 6
    /\ Placeholders(tmpl.template) = {<<"a">>}
    /\ Declared = {<<"b">>}

----------------------------------------------------------------------------
(* Claims about the construction of a PromptTemplate *)

IsNonEmptyStr(f) == f.shape = "str" /\ f.s # <<>>

\* C5: construction fails with a validation error whenever the name or the
\* body is empty; with a non-empty name and body and nothing else given it
\* succeeds with version "1.0.0", an empty description and no variables; no
\* constructed template has an empty name or body.
C5_ConstructionValidates ==
    op.name = "construct" =>
        LET a == op.args
        IN  /\ (a.name = Str(<<>>) \/ a.template = Str(<<>>)) =>
                  (ret.kind = "raise" /\ ret.type = "ValidationError")
            /\ ( /\ IsNonEmptyStr(a.name) /\ IsNonEmptyStr(a.template)
                 /\ a.version = Absent /\ a.description = Absent
                 /\ a.variables = VAbsent ) =>
                  ret = Ok([name |-> a.name.s, version |-> DefaultVersion,
                            description |-> <<>>, template |-> a.template.s,
                            variables |-> <<>>])
            /\ ret.kind = "ok" =>
                  (ret.value.name # <<>> /\ ret.value.template # <<>>)

\* C6: with the other arguments valid, `variables` None gives the empty list,
\* a single string s gives [s], a list of strings is kept, and an input of any
\* other shape makes construction fail with a validation error.
C6_VariablesNormalized ==
    ( /\ op.name = "construct"
      /\ IsNonEmptyStr(op.args.name) /\ IsNonEmptyStr(op.args.template)
      /\ op.args.version.shape # "int" /\ op.args.description.shape # "int"
      /\ op.args.variables.shape # "absent" ) =>
        LET v == op.args.variables
            strings == [i \in DOMAIN v.elems |-> v.elems[i].s]
            listOfStr == /\ v.shape = "list"
                         /\ \A i \in DOMAIN v.elems : v.elems[i].shape = "str"
        IN  CASE v.shape = "none" ->
                    ret.kind = "ok" /\ ret.value.variables = <<>>
              [] v.shape = "str" ->
                    ret.kind = "ok" /\ ret.value.variables = strings
              [] listOfStr ->
                    ret.kind = "ok" /\ ret.value.variables = strings
              [] OTHER ->
                    ret.kind = "raise" /\ ret.type = "ValidationError"

----------------------------------------------------------------------------
(* Claims about PromptRegistry *)

KeySet(d) == {d[i].key : i \in DOMAIN d}

Occurrences(seq, x) == Cardinality({i \in DOMAIN seq : seq[i] = x})

\* C7: in every state reached from an empty registry by register,
\* load_from_yaml and load_from_directory calls, successful or failing (and
\* by the read-only calls between them), every entry's key is the name of the
\* template stored under it.
C7_KeyIsName ==
    \A i \in DOMAIN prompts : prompts[i].key = prompts[i].value.name

\* C7 witness: a load_from_directory that failed part-way left a second entry
\* in the registry.
C7_Witness ==
    /\ op.name = "load_from_directory"
    /\ ret.kind = "raise"
    /\ Len(before) = 1
    /\ Len(prompts) = 2

\* C8: register raises nothing; after it, get of the registered name returns
\* the template just registered and list_prompts holds that name exactly
\* once; list_prompts never holds a name twice.
C8_LastWriteWins ==
    /\ \A name \in PromptNames : Occurrences(list_prompts(prompts), name) <= 1
    /\ op.name = "register" =>
          /\ ret.kind = "ok"
          /\ get(prompts, op.prompt.name) = Ok(op.prompt)
          /\ Occurrences(list_prompts(prompts), op.prompt.name) = 1

\* C8 witness: a template was registered under a name that already held a
\* different template, with another name registered as well.
C8_Witness ==
    /\ op.name = "register"
    /\ \E i \in DOMAIN before :
          /\ before[i].key = op.prompt.name
          /\ before[i].value # op.prompt
    /\ Len(before) = 2

\* C9: a new registry is empty, and no step of register, get, list_prompts,
\* load_from_yaml, load_from_directory or validate_all removes a registered
\* name.
C9_NeverShrinks ==
    /\ prompts = <<>>
    /\ [][KeySet(prompts) \subseteq KeySet(prompts')]_vars

\* C9 witness: a call was made on a registry that held both names, one of
\* them overwritten by a failing load_from_directory.
C9_Witness ==
    /\ op.name = "load_from_directory"
    /\ ret.kind = "raise"
    /\ Len(before) = 2
    /\ prompts # before

\* C10: get of a registered name returns the template stored under it; get
\* of an unregistered name raises KeyError naming the requested name and
\* listing exactly the registered names; the registry is left as it was.
C10_Get ==
    op.name = "get" =>
        /\ prompts = before
        /\ (op.arg \in KeySet(prompts)) =>
              /\ ret.kind = "ok"
              /\ \E i \in DOMAIN prompts :
                    prompts[i].key = op.arg /\ ret.value = prompts[i].value
        /\ (op.arg \notin KeySet(prompts)) =>
              /\ ret.kind = "raise"
              /\ ret.type = "KeyError"
              /\ ret.detail.name = op.arg
              /\ Len(ret.detail.available) = Len(prompts)
              /\ \A i \in DOMAIN prompts :
                    Occurrences(ret.detail.available, prompts[i].key) = 1

\* C10 witness: get of an unregistered name on a registry that holds the
\* other name.
C10_Witness ==
    /\ op.name = "get"
    /\ ret.kind = "raise"
    /\ Len(prompts) = 1

----------------------------------------------------------------------------
(* Claims about loading templates into the PromptRegistry *)

\* the template a document's fields describe
FromFields(a) ==
    [name |-> a.name.s,
     version |-> IF a.version.shape = "absent" THEN DefaultVersion
                 ELSE a.version.s,
     description |-> IF a.description.shape = "absent" THEN <<>>
                     ELSE a.description.s,
     template |-> a.template.s,
     variables |-> [i \in DOMAIN a.variables.elems |-> a.variables.elems[i].s]]

HasNameAndTemplate(doc) ==
    /\ doc.kind = "mapping"
    /\ IsNonEmptyStr(doc.args.name) /\ IsNonEmptyStr(doc.args.template)

\* every optional field that is given has a valid shape
ValidOptionalFields(doc) ==
    /\ doc.args.version.shape \in {"absent", "str"}
    /\ doc.args.description.shape \in {"absent", "str"}
    /\ \/ doc.args.variables.shape \in {"absent", "none", "str"}
       \/ /\ doc.args.variables.shape = "list"
          /\ \A i \in DOMAIN doc.args.variables.elems :
                doc.args.variables.elems[i].shape = "str"

\* C11 as stated: a document that has a non-empty name and template is
\* constructed, registered and returned.
C11_NameAndTemplateSuffice ==
    (op.name = "load_from_yaml" /\ HasNameAndTemplate(op.doc)) =>
        /\ ret.kind = "ok"
        /\ get(prompts, ret.value.name) = ret

\* C11 amended: a document with a non-empty name and template whose optional
\* fields, where given, have a valid shape is constructed from its fields,
\* registered and returned, so that get(returned.name) is the returned
\* template; a document that cannot be read, is malformed, is no mapping or
\* lacks a non-empty name or template makes load_from_yaml raise.
C11_LoadFromYaml ==
    op.name = "load_from_yaml" =>
        /\ (HasNameAndTemplate(op.doc) /\ ValidOptionalFields(op.doc)) =>
              /\ ret = Ok(FromFields(op.doc.args))
              /\ get(prompts, ret.value.name) = ret
        /\ ~HasNameAndTemplate(op.doc) => ret.kind = "raise"

\* C11 witness: a well-formed file was loaded over a different template
\* registered under the same name.
C11_Witness ==
    /\ op.name = "load_from_yaml"
    /\ ret.kind = "ok"
    /\ \E i \in DOMAIN before :
          before[i].key = ret.value.name /\ before[i].value # ret.value

\* the documents of the .yaml files directly inside a directory, in order
RECURSIVE DirectYamlDocs(_)
DirectYamlDocs(entries) ==
    IF entries = <<>> THEN <<>>
    ELSE LET rest == DirectYamlDocs(Tail(entries))
         IN  IF Head(entries).where = "yaml"
             THEN <<Head(entries).doc>> \o rest ELSE rest

FailsToLoad(doc) ==
    doc.kind # "mapping" \/ PromptTemplate(doc.args).kind = "raise"

\* the registry d after the first n of the documents were registered in order
RECURSIVE RegisterFirst(_, _, _)
RegisterFirst(d, docs, n) ==
    IF n = 0 THEN d
    ELSE register(RegisterFirst(d, docs, n - 1),
                  PromptTemplate(docs[n].args).value)

\* C12: when a file fails to load, load_from_directory raises that file's
\* error and returns no list; the registry afterwards is the registry before
\* the call with the files enumerated before the failing one registered, and
\* no later file.
C12_FailurePropagates ==
    LET docs == DirectYamlDocs(op.entries)
        failing == {i \in DOMAIN docs : FailsToLoad(docs[i])}
    IN  (op.name = "load_from_directory" /\ failing # {}) =>
            LET k == CHOOSE i \in failing : \A j \in failing : i <= j
            IN  /\ ret.kind = "raise"
                /\ ret = load_from_yaml(<<>>, docs[k]).result
                /\ prompts = RegisterFirst(before, docs, k - 1)

\* C12 witness: the first file failed and a well-formed file enumerated after
\* it, declaring a name the registry does not hold, was not loaded.
C12_Witness ==
    /\ op.name = "load_from_directory"
    /\ ret.kind = "raise"
    /\ Len(op.entries) = 2
    /\ op.entries[1] = YamlFile(Malformed)
    /\ op.entries[2].where = "yaml"
    /\ ~FailsToLoad(op.entries[2].doc)
    /\ op.entries[2].doc.args.name.s \notin KeySet(prompts)

\* C13: when every .yaml file directly inside the directory loads, the
\* returned list holds one template per such file, in order; every returned
\* name is in list_prompts, the last file enumerated for a name being the
\* one registered; nothing else is loaded: no file of a subdirectory and no
\* file with another extension.
C13_DirectoryLoads ==
    LET docs == DirectYamlDocs(op.entries)
    IN  ( /\ op.name = "load_from_directory"
          /\ \A i \in DOMAIN docs : ~FailsToLoad(docs[i]) ) =>
            /\ ret.kind = "ok"
            /\ Len(ret.value) =
                   Cardinality({i \in DOMAIN op.entries :
                                   op.entries[i].where = "yaml"})
            /\ \A i \in DOMAIN docs :
                  /\ ret.value[i] = FromFields(docs[i].args)
                  /\ Occurrences(list_prompts(prompts), ret.value[i].name) = 1
                  /\ (\A j \in DOMAIN docs :
                         j > i => ret.value[j].name # ret.value[i].name)
                       => get(prompts, ret.value[i].name) = Ok(ret.value[i])
            /\ prompts = RegisterFirst(before, docs, Len(docs))

\* C13 witness: two files declaring the same name with different bodies were
\* loaded from the directory.
C13_Witness ==
    /\ op.name = "load_from_directory"
    /\ ret.kind = "ok"
    /\ Len(ret.value) = 2
    /\ ret.value[1].name = ret.value[2].name
    /\ ret.value[1] # ret.value[2]

----------------------------------------------------------------------------
(* Claims about PromptRegistry.validate_all *)

\* C14: validate_all returns a mapping whose keys are exactly the registered
\* names whose template has a non-empty validate_variables result, each
\* mapped to that result; no value is empty, no key is unregistered, the
\* mapping is empty iff every registered template is consistent, and the
\* registry is left as it was.
C14_ValidateAll ==
    op.name = "validate_all" =>
        /\ ret.kind = "ok"
        /\ prompts = before
        /\ KeySet(ret.value) =
               {prompts[i].key : i \in
                   {j \in DOMAIN prompts :
                       validate_variables(prompts[j].value) # <<>>}}
        /\ \A j \in DOMAIN ret.value :
              /\ ret.value[j].value # <<>>
              /\ Occurrences(DictKeys(ret.value), ret.value[j].key) = 1
              /\ \E i \in DOMAIN prompts :
                    /\ prompts[i].key = ret.value[j].key
                    /\ ret.value[j].value =
                           validate_variables(prompts[i].value)
        /\ (ret.value = <<>>) <=>
               \A i \in DOMAIN prompts :
                   Placeholders(prompts[i].value.template)
                       = ToSet(prompts[i].value.variables)

\* C14 witness: validate_all on a registry that holds one consistent and one
\* inconsistent template.
C14_Witness ==
    /\ op.name = "validate_all"
    /\ Len(prompts) = 2
    /\ Len(ret.value) = 1

----------------------------------------------------------------------------
(* get_prompt_registry: the lazily built global PromptRegistry *)

\* PromptRegistry(): self._prompts = {}
NewRegistry == <<>>

IsNone_Always(g) == TRUE

\* _global_registry is None
IsNone(g) == g = NoRegistry

AfterCheck_Reloads(g) == IF IsNone(g) THEN "L211" ELSE "L214"

\* if _global_registry is None: ... ; return _global_registry
\* the line a call goes to from its check
AfterCheck(g) == IF IsNone(g) THEN "L211" ELSE "L216"

\* prompts_dir.exists()
exists(dir) == dir.exists

\* the default directory holds no prompts directory, or one with these entries
NoDirectory == [exists |-> FALSE, entries |-> <<>>]
Directory(entries) == [exists |-> TRUE, entries |-> entries]

\* files of the default directory: one that loads and one that does not
DefaultDocs ==
    {Mapping(Args(Str(<<"p">>), Absent, Absent, Str(<<"-">>),
                  VList(<<Str(<<"a">>)>>))),
     Malformed}

DefaultDirs ==
    {NoDirectory}
    \cup {Directory(l) :
             l \in SeqsUpTo({YamlFile(doc) : doc \in DefaultDocs}, MaxFiles)}

\* templates a caller registers on the instance it holds
HeldTemplates ==
    {[name |-> <<"p">>, version |-> DefaultVersion, description |-> <<>>,
      template |-> <<"{", "a", "}">>, variables |-> <<<<"a">>>>],
     [name |-> <<"q">>, version |-> DefaultVersion, description |-> <<>>,
      template |-> <<"-">>, variables |-> <<>>]}

InitSingleton ==
    /\ tmpl = NoTemplate
    /\ op = [name |-> "init"]
    /\ ret = Ok(<<>>)
    /\ prompts = <<>>
    /\ before = <<>>
    /\ SingletonIdle
    /\ default_dir \in DefaultDirs
    /\ ConfigIdle
    /\ environ = Unset
    /\ dotenv = Unset
    /\ SessionIdle

outsideSingleton == <<tmpl, op, ret, prompts, before, configVars, sessionVars>>

\* line 210: the call of thread t begins and reads the global
CheckGlobal(t) ==
    /\ pc[t] = "idle"
    /\ pc' = [pc EXCEPT ![t] = AfterCheck(global_registry)]
    /\ sawNone' = [sawNone EXCEPT ![t] = IsNone(global_registry)]
    /\ raced' = (raced \/ (/\ IsNone(global_registry)
                           /\ \E u \in Threads \ {t} : pc[u] = "L211"))
    /\ outcome' = [outcome EXCEPT ![t] = [kind |-> "pending"]]
    /\ UNCHANGED <<global_registry, registries, default_dir, target, file,
                   held, completed, outsideSingleton>>

\* line 211: _global_registry = PromptRegistry()
AssignGlobal(t) ==
    /\ pc[t] = "L211"
    /\ registries' = Append(registries, NewRegistry)
    /\ global_registry' = Len(registries) + 1
    /\ pc' = [pc EXCEPT ![t] = "L214"]
    /\ UNCHANGED <<default_dir, target, file, held, outcome, sawNone, raced,
                   completed, outsideSingleton>>

\* lines 214-215: if the directory exists, load_from_directory begins on the
\* instance the global names now, and enumerates the directory
BeginLoad(t) ==
    /\ pc[t] = "L214"
    /\ IF exists(default_dir) /\ glob(default_dir.entries) # <<>>
       THEN /\ target' = [target EXCEPT ![t] = global_registry]
            /\ file' = [file EXCEPT ![t] = 1]
            /\ pc' = [pc EXCEPT ![t] = "L215"]
            /\ UNCHANGED completed
       ELSE /\ pc' = [pc EXCEPT ![t] = "L216"]
            /\ completed' = completed \cup {global_registry}
            /\ UNCHANGED <<target, file>>
    /\ UNCHANGED <<global_registry, registries, default_dir, held, outcome,
                   sawNone, raced, outsideSingleton>>

\* line 215, one turn of load_from_directory's loop: load_from_yaml of the
\* next file; its exception ends the call of get_prompt_registry
LoadFile(t) ==
    /\ pc[t] = "L215"
    /\ LET files == glob(default_dir.entries)
           r == load_from_yaml(registries[target[t]], files[file[t]])
       IN  /\ registries' = [registries EXCEPT ![target[t]] = r.prompts]
           /\ IF r.result.kind = "raise"
              THEN /\ outcome' = [outcome EXCEPT ![t] = r.result]
                   /\ pc' = [pc EXCEPT ![t] = "idle"]
                   /\ target' = [target EXCEPT ![t] = NoRegistry]
                   /\ file' = [file EXCEPT ![t] = 0]
                   /\ UNCHANGED completed
              ELSE IF file[t] = Len(files)
              THEN /\ pc' = [pc EXCEPT ![t] = "L216"]
                   /\ target' = [target EXCEPT ![t] = NoRegistry]
                   /\ file' = [file EXCEPT ![t] = 0]
                   /\ completed' = completed \cup {target[t]}
                   /\ UNCHANGED outcome
              ELSE /\ file' = [file EXCEPT ![t] = file[t] + 1]
                   /\ UNCHANGED <<pc, target, outcome, completed>>
    /\ UNCHANGED <<global_registry, default_dir, held, sawNone, raced,
                   outsideSingleton>>

\* line 216: return _global_registry, read again
ReturnGlobal(t) ==
    /\ pc[t] = "L216"
    /\ held' = [held EXCEPT ![t] = global_registry]
    /\ outcome' = [outcome EXCEPT ![t] = Ok(global_registry)]
    /\ pc' = [pc EXCEPT ![t] = "idle"]
    /\ UNCHANGED <<global_registry, registries, default_dir, target, file,
                   sawNone, raced, completed, outsideSingleton>>

\* between its calls, a caller registers a template on the instance it holds
RegisterOn(t) ==
    /\ pc[t] = "idle"
    /\ held[t] # NoRegistry
    /\ \E prompt \in HeldTemplates :
          registries' = [registries EXCEPT
                            ![held[t]] = register(registries[held[t]], prompt)]
    /\ UNCHANGED <<global_registry, default_dir, pc, target, file, held,
                   outcome, sawNone, raced, completed, outsideSingleton>>

\* SpecSingleton: two threads call get_prompt_registry with no lock
NextSingleton ==
    \E t \in Threads :
        \/ CheckGlobal(t)
        \/ AssignGlobal(t)
        \/ BeginLoad(t)
        \/ LoadFile(t)
        \/ ReturnGlobal(t)
        \/ RegisterOn(t)

SpecSingleton == InitSingleton /\ [][NextSingleton]_vars

\* SpecSingleThread: every call is made by the one main thread
MainThread == {"T1"}

NextSingleThread ==
    \E t \in MainThread :
        \/ CheckGlobal(t)
        \/ AssignGlobal(t)
        \/ BeginLoad(t)
        \/ LoadFile(t)
        \/ ReturnGlobal(t)
        \/ RegisterOn(t)

SpecSingleThread == InitSingleton /\ [][NextSingleThread]_vars

----------------------------------------------------------------------------
(* Claims about get_prompt_registry *)

\* the main thread's calls: one instance at most is ever built, a returned
\* call holds the global one, a missing directory raises nothing, and the
\* first call reaches its return with the default directory loaded
SingleThreadState ==
    /\ Len(registries) <= 1
    /\ (global_registry = NoRegistry) <=> (registries = <<>>)
    /\ \A t \in MainThread :
          /\ held[t] # NoRegistry => held[t] = global_registry
          /\ ~default_dir.exists => outcome[t].kind # "raise"
          /\ (pc[t] = "L216" /\ sawNone[t]) =>
                LET docs == DirectYamlDocs(default_dir.entries)
                IN  registries[global_registry] =
                        IF default_dir.exists
                        THEN RegisterFirst(<<>>, docs, Len(docs))
                        ELSE <<>>

\* a call is the first one that builds iff no instance exists when it
\* begins; a step of a call that found the global set builds nothing, loads
\* nothing and returns the global instance
SingleThreadStep ==
    \A t \in MainThread :
        /\ (pc[t] = "idle" /\ pc'[t] # "idle") =>
              (sawNone'[t] <=> registries = <<>>)
        /\ (pc[t] # "idle" /\ ~sawNone[t]) =>
              /\ UNCHANGED <<global_registry, registries>>
              /\ pc'[t] = "idle"
              /\ held'[t] = global_registry
              /\ outcome'[t] = Ok(global_registry)

\* C15: under single-threaded use the first call of get_prompt_registry
\* builds the global registry and attempts the load of the default directory
\* (nothing, and no error, when the directory is missing); every later call
\* returns the same instance, builds nothing and loads nothing, so what was
\* registered on the instance between calls is still there.
C15_SingleThreaded == []SingleThreadState /\ [][SingleThreadStep]_vars

\* C15 witness: a later call returned the instance of an existing default
\* directory with a template on it that was registered between the calls.
C15_Witness ==
    /\ pc["T1"] = "idle"
    /\ outcome["T1"].kind = "ok"
    /\ ~sawNone["T1"]
    /\ default_dir.exists
    /\ <<"q">> \in KeySet(registries[held["T1"]])

\* C16: without a lock two threads can come to hold different instances,
\* and only through a race: one thread's check found the global unset while
\* the other was between its own check and its assignment.
C16_DifferOnlyAfterRace ==
    (\E t, u \in Threads :
        /\ held[t] # NoRegistry /\ held[u] # NoRegistry
        /\ held[t] # held[u]) => raced

\* C16 witness: both calls have returned and the two callers hold different
\* PromptRegistry instances.
C16_Witness ==
    /\ pc["T1"] = "idle" /\ pc["T2"] = "idle"
    /\ outcome["T1"].kind = "ok" /\ outcome["T2"].kind = "ok"
    /\ held["T1"] # NoRegistry /\ held["T2"] # NoRegistry
    /\ held["T1"] # held["T2"]

----------------------------------------------------------------------------
(* Settings and get_settings (src/src/config/settings.py) *)

\* Literal["local", "dev", "stg", "prod"]
EnvironmentType ==
    {<<"l", "o", "c", "a", "l">>, <<"d", "e", "v">>, <<"s", "t", "g">>,
     <<"p", "r", "o", "d">>}

\* Field(default="local")
DefaultEnvironment == <<"l", "o", "c", "a", "l">>

\* Settings(): app_environment is read from the environment variable, else
\* from the .env file, else it is the default; a value outside the Literal
\* is a ValidationError
Settings(env, denv) ==
    LET raw == IF env.set THEN env.v
               ELSE IF denv.set THEN denv.v
               ELSE DefaultEnvironment
    IN  IF raw \in EnvironmentType
        THEN Ok([app_environment |-> raw])
        ELSE Raise("ValidationError", "Settings", {"app_environment"})

get_settings_Uncached(c, insts, env, denv) ==
    LET r == Settings(env, denv)
    IN  IF r.kind = "raise"
        THEN [cache |-> c, settings |-> insts, result |-> r]
        ELSE [cache |-> Len(insts) + 1,
              settings |-> Append(insts, r.value),
              result |-> Ok(Len(insts) + 1)]

\* @lru_cache get_settings(): the cached instance, or a new one that is
\* cached when its construction does not raise
get_settings(c, insts, env, denv) ==
    IF c # NoSettings
    THEN [cache |-> c, settings |-> insts, result |-> Ok(c)]
    ELSE LET r == Settings(env, denv)
         IN  IF r.kind = "raise"
             THEN [cache |-> c, settings |-> insts, result |-> r]
             ELSE [cache |-> Len(insts) + 1,
                   settings |-> Append(insts, r.value),
                   result |-> Ok(Len(insts) + 1)]

\* get_settings.cache_clear()
cache_clear(c) == NoSettings

----------------------------------------------------------------------------
(* DataLayer, TableName and TableNameManager (src/src/config/tables.py) *)

\* class DataLayer(str, Enum): member -> value
DataLayer ==
    [BRONZE |-> <<"b", "r", "o", "n", "z", "e">>,
     SILVER |-> <<"s", "i", "l", "v", "e", "r">>,
     GOLD |-> <<"g", "o", "l", "d">>]

\* class TableName(str, Enum): member -> value
TableName ==
    [AGENT_RUNS |-> <<"a", "g", "e", "n", "t", "_", "r", "u", "n", "s">>]

\* the members in definition order, as `for table in TableName` yields them
TableNameMembers == <<"AGENT_RUNS">>

TableNameManager_AlwaysSettings(env, layer, c, insts, environment, denv) ==
    LET l == IF layer = "absent" THEN "SILVER" ELSE layer
        g == get_settings(c, insts, environment, denv)
    IN  IF g.result.kind = "raise" THEN g
        ELSE [cache |-> g.cache, settings |-> g.settings,
              result |-> Ok([env |-> IF env.set THEN env.v
                                     ELSE g.settings[g.result.value]
                                              .app_environment,
                             layer |-> l])]

\* TableNameManager(env=None, layer=DataLayer.SILVER)
TableNameManager(env, layer, c, insts, environment, denv) ==
    LET l == IF layer = "absent" THEN "SILVER" ELSE layer
    IN  IF env.set
        THEN [cache |-> c, settings |-> insts,
              result |-> Ok([env |-> env.v, layer |-> l])]
        ELSE LET g == get_settings(c, insts, environment, denv)
             IN  IF g.result.kind = "raise" THEN g
                 ELSE [cache |-> g.cache, settings |-> g.settings,
                       result |->
                           Ok([env |-> g.settings[g.result.value]
                                           .app_environment,
                               layer |-> l])]

\* get_table_manager(layer=DataLayer.SILVER)
get_table_manager(layer, c, insts, environment, denv) ==
    TableNameManager(Unset, IF layer = "absent" THEN "SILVER" ELSE layer,
                     c, insts, environment, denv)

TableNameManager_get_NoLayer(self, table) ==
    self.env \o <<"_">> \o TableName[table]

\* f"{self.env}_{self.layer.value}_{table.value}"
TableNameManager_get(self, table) ==
    self.env \o <<"_">> \o DataLayer[self.layer] \o <<"_">> \o TableName[table]

get_all_DefaultLayer(self) ==
    [i \in DOMAIN TableNameMembers |->
        [key |-> TableNameMembers[i],
         value |-> TableNameManager_get([env |-> self.env, layer |-> "SILVER"],
                                        TableNameMembers[i])]]

RECURSIVE GetAllFrom(_, _, _)
GetAllFrom(self, i, d) ==
    IF i > Len(TableNameMembers) THEN d
    ELSE GetAllFrom(self, i + 1,
                    DictSet(d, TableNameMembers[i],
                            TableNameManager_get(self, TableNameMembers[i])))

\* {table: self.get(table) for table in TableName}
get_all(self) == GetAllFrom(self, 1, <<>>)

----------------------------------------------------------------------------
(* SpecConfig: the environment changes, settings are read through the cache, *)
(* and TableNameManagers are built and asked for names                      *)

\* values of APP_ENVIRONMENT in os.environ: unset, valid, invalid
EnvironValues == {Unset, Set(<<"p", "r", "o", "d">>), Set(<<"q", "a">>)}

\* values of APP_ENVIRONMENT in the .env file
DotenvValues == {Unset, Set(<<"s", "t", "g">>)}

\* the env argument of TableNameManager: None, one of the four, another string
EnvArgs == {Unset, Set(<<"d", "e", "v">>), Set(<<"q", "a">>)}

\* the layer argument: left out, or a member of DataLayer
LayerArgs == {"absent"} \cup DOMAIN DataLayer

InitConfig ==
    /\ tmpl = NoTemplate
    /\ op = [name |-> "init"]
    /\ ret = Ok(<<>>)
    /\ prompts = <<>>
    /\ before = <<>>
    /\ SingletonIdle
    /\ default_dir = [exists |-> FALSE, entries |-> <<>>]
    /\ ConfigIdle
    /\ environ \in EnvironValues
    /\ dotenv \in DotenvValues
    /\ SessionIdle

outsideConfig == <<tmpl, prompts, before, singletonVars, sessionVars>>

\* what a call of get_settings, direct or from a TableNameManager, leaves
\* in the history variables
Returned(g) ==
    IF g.result.kind = "ok" THEN since_clear \cup {g.result.value}
    ELSE since_clear

\* a call may build a Settings instance only while fewer than MaxSettings exist
MayBuild == cache # NoSettings \/ Len(settings) < MaxSettings

Snapshot == [cache |-> cache, built |-> Len(settings)]

\* os.environ["APP_ENVIRONMENT"] is set or deleted
SetEnviron ==
    \E v \in EnvironValues \ {environ} :
        /\ environ' = v
        /\ op' = [name |-> "environ"]
        /\ ret' = Ok("None")
        /\ cached_before' = Snapshot
        /\ UNCHANGED <<dotenv, cache, settings, manager, since_clear,
                       outsideConfig>>

\* the .env file is rewritten
SetDotenv ==
    \E v \in DotenvValues \ {dotenv} :
        /\ dotenv' = v
        /\ op' = [name |-> "dotenv"]
        /\ ret' = Ok("None")
        /\ cached_before' = Snapshot
        /\ UNCHANGED <<environ, cache, settings, manager, since_clear,
                       outsideConfig>>

GetSettings ==
    /\ MayBuild
    /\ LET g == get_settings(cache, settings, environ, dotenv)
       IN  /\ op' = [name |-> "get_settings"]
           /\ ret' = g.result
           /\ cache' = g.cache
           /\ settings' = g.settings
           /\ since_clear' = Returned(g)
    /\ cached_before' = Snapshot
    /\ UNCHANGED <<environ, dotenv, manager, outsideConfig>>

CacheClear ==
    /\ op' = [name |-> "cache_clear"]
    /\ ret' = Ok("None")
    /\ cache' = cache_clear(cache)
    /\ since_clear' = {}
    /\ cached_before' = Snapshot
    /\ UNCHANGED <<environ, dotenv, settings, manager, outsideConfig>>

NewTableNameManager ==
    /\ MayBuild
    /\ \E env \in EnvArgs, layer \in LayerArgs :
        LET r == TableNameManager(env, layer, cache, settings, environ, dotenv)
        IN  /\ op' = [name |-> "TableNameManager", env |-> env, layer |-> layer]
            /\ ret' = r.result
            /\ manager' = IF r.result.kind = "ok" THEN r.result.value
                          ELSE manager
            /\ cache' = r.cache
            /\ settings' = r.settings
            /\ since_clear' = {i \in 1..Len(r.settings) :
                                  i \in since_clear \/ i > Len(settings)}
    /\ cached_before' = Snapshot
    /\ UNCHANGED <<environ, dotenv, outsideConfig>>

GetTableManager ==
    /\ MayBuild
    /\ \E layer \in LayerArgs :
        LET r == get_table_manager(layer, cache, settings, environ, dotenv)
        IN  /\ op' = [name |-> "get_table_manager", layer |-> layer]
            /\ ret' = r.result
            /\ manager' = IF r.result.kind = "ok" THEN r.result.value
                          ELSE manager
            /\ cache' = r.cache
            /\ settings' = r.settings
            /\ since_clear' = {i \in 1..Len(r.settings) :
                                  i \in since_clear \/ i > Len(settings)}
    /\ cached_before' = Snapshot
    /\ UNCHANGED <<environ, dotenv, outsideConfig>>

TableGet ==
    /\ manager # NoManager
    /\ \E table \in DOMAIN TableName :
        /\ op' = [name |-> "get", table |-> table]
        /\ ret' = Ok(TableNameManager_get(manager, table))
    /\ cached_before' = Snapshot
    /\ UNCHANGED <<environ, dotenv, cache, settings, manager, since_clear,
                   outsideConfig>>

TableGetAll ==
    /\ manager # NoManager
    /\ op' = [name |-> "get_all"]
    /\ ret' = Ok(get_all(manager))
    /\ cached_before' = Snapshot
    /\ UNCHANGED <<environ, dotenv, cache, settings, manager, since_clear,
                   outsideConfig>>

NextConfig ==
    \/ SetEnviron
    \/ SetDotenv
    \/ GetSettings
    \/ CacheClear
    \/ NewTableNameManager
    \/ GetTableManager
    \/ TableGet
    \/ TableGetAll

SpecConfig == InitConfig /\ [][NextConfig]_vars

----------------------------------------------------------------------------
(* Claims about get_settings *)

\* the value of APP_ENVIRONMENT a Settings built now would read
EffectiveEnvironment ==
    CASE environ.set -> environ.v
      [] ~environ.set /\ dotenv.set -> dotenv.v
      [] OTHER -> <<"l", "o", "c", "a", "l">>

ValidEnvironment ==
    EffectiveEnvironment \in
        {<<"l", "o", "c", "a", "l">>, <<"d", "e", "v">>, <<"s", "t", "g">>,
         <<"p", "r", "o", "d">>}

\* C17: the calls of get_settings with no cache_clear between them return
\* one and the same Settings instance, whatever happened to the environment
\* in between; a call on a cleared cache builds a new instance from the
\* environment as it is then, or raises and caches nothing.
C17_Cached ==
    /\ Cardinality(since_clear) <= 1
    /\ op.name = "get_settings" =>
          /\ cached_before.cache # NoSettings =>
                /\ ret = Ok(cached_before.cache)
                /\ Len(settings) = cached_before.built
          /\ (cached_before.cache = NoSettings /\ ValidEnvironment) =>
                /\ ret = Ok(cached_before.built + 1)
                /\ Len(settings) = cached_before.built + 1
                /\ settings[ret.value].app_environment = EffectiveEnvironment
                /\ cache = ret.value
          /\ (cached_before.cache = NoSettings /\ ~ValidEnvironment) =>
                /\ ret.kind = "raise"
                /\ cache = NoSettings
                /\ Len(settings) = cached_before.built

\* C17 witness: a second call returned the cached instance although the
\* environment has changed since it was built.
C17_Witness ==
    /\ op.name = "get_settings"
    /\ cached_before.cache # NoSettings
    /\ ret = Ok(cached_before.cache)
    /\ ValidEnvironment
    /\ settings[ret.value].app_environment # EffectiveEnvironment

----------------------------------------------------------------------------
(* Claims about TableNameManager *)

\* r is e, an underscore, l, an underscore and t, in this order
IsQualified(r, e, l, t) ==
    /\ Len(r) = Len(e) + Len(l) + Len(t) + 2
    /\ SubSeq(r, 1, Len(e)) = e
    /\ r[Len(e) + 1] = "_"
    /\ SubSeq(r, Len(e) + 2, Len(e) + 1 + Len(l)) = l
    /\ r[Len(e) + Len(l) + 2] = "_"
    /\ SubSeq(r, Len(e) + Len(l) + 3, Len(r)) = t

\* every (environment, layer, table) of the four environment tokens, the
\* three layers and the TableName members
Triples ==
    [env : {<<"l", "o", "c", "a", "l">>, <<"d", "e", "v">>, <<"s", "t", "g">>,
            <<"p", "r", "o", "d">>},
     layer : {"BRONZE", "SILVER", "GOLD"},
     table : {"AGENT_RUNS"}]

NameOf(x) ==
    TableNameManager_get([env |-> x.env, layer |-> x.layer], x.table)

\* C18: get returns the environment, the layer's value and the table's
\* value joined by underscores; over the four environments, the three layers
\* and every TableName member, triples that differ yield different names;
\* env "dev", SILVER, AGENT_RUNS gives "dev_silver_agent_runs".
C18_QualifiedName ==
    /\ op.name = "get" =>
          /\ ret.kind = "ok"
          /\ IsQualified(ret.value, manager.env, DataLayer[manager.layer],
                         TableName[op.table])
    /\ \A x, y \in Triples : NameOf(x) = NameOf(y) => x = y
    /\ NameOf([env |-> <<"d", "e", "v">>, layer |-> "SILVER",
               table |-> "AGENT_RUNS"])
           = <<"d", "e", "v", "_", "s", "i", "l", "v", "e", "r", "_",
               "a", "g", "e", "n", "t", "_", "r", "u", "n", "s">>

\* C18 witness: get was called on a manager for env "dev" and layer SILVER.
C18_Witness ==
    /\ op.name = "get"
    /\ manager.env = <<"d", "e", "v">>
    /\ manager.layer = "SILVER"
    /\ ret.value = <<"d", "e", "v", "_", "s", "i", "l", "v", "e", "r", "_",
                     "a", "g", "e", "n", "t", "_", "r", "u", "n", "s">>

\* C19: get_all returns a mapping whose keys are exactly the TableName
\* members, each mapped to what get returns for it under the manager's
\* environment and layer.
C19_GetAll ==
    op.name = "get_all" =>
        /\ ret.kind = "ok"
        /\ KeySet(ret.value) = DOMAIN TableName
        /\ Len(ret.value) = Cardinality(DOMAIN TableName)
        /\ \A i \in DOMAIN ret.value :
              ret.value[i].value =
                  TableNameManager_get(manager, ret.value[i].key)

\* C19 witness: get_all was called on a manager of the GOLD layer.
C19_Witness ==
    /\ op.name = "get_all"
    /\ manager.layer = "GOLD"
    /\ ret.value # <<>>

\* the app_environment get_settings() yields for a call that began with the
\* cache as cached_before records it
AmbientEnvironment ==
    IF cached_before.cache # NoSettings
    THEN settings[cached_before.cache].app_environment
    ELSE EffectiveEnvironment

\* C20: a TableNameManager built with an environment uses it as given and
\* leaves the settings cache alone; built with None it takes app_environment
\* of get_settings() as it is at construction; the layer defaults to SILVER;
\* get_table_manager always takes the environment from the settings and
\* uses the layer it is given, SILVER by default.
C20_Construction ==
    /\ op.name = "TableNameManager" =>
          /\ op.env.set =>
                /\ ret.kind = "ok"
                /\ manager.env = op.env.v
                /\ cache = cached_before.cache
                /\ Len(settings) = cached_before.built
          /\ (~op.env.set /\ ret.kind = "ok") =>
                manager.env = AmbientEnvironment
          /\ ~op.env.set =>
                (ret.kind = "raise" <=>
                    (cached_before.cache = NoSettings /\ ~ValidEnvironment))
    /\ op.name = "get_table_manager" =>
          /\ ret.kind = "ok" => manager.env = AmbientEnvironment
          /\ ret.kind = "raise" <=>
                (cached_before.cache = NoSettings /\ ~ValidEnvironment)
    /\ (op.name \in {"TableNameManager", "get_table_manager"}
          /\ ret.kind = "ok") =>
          /\ ret.value = manager
          /\ manager.layer = IF op.layer = "absent" THEN "SILVER" ELSE op.layer

\* C20 witness: a manager built with neither argument took its environment
\* from the cached settings, which differ from the environment as it is now,
\* and its layer is SILVER.
C20_Witness ==
    /\ op.name = "TableNameManager"
    /\ ~op.env.set
    /\ op.layer = "absent"
    /\ ret.kind = "ok"
    /\ cached_before.cache # NoSettings
    /\ ValidEnvironment
    /\ manager.env # EffectiveEnvironment

----------------------------------------------------------------------------
(* Claims about failures of load_from_yaml *)

\* C27: when load_from_yaml fails, whatever the failure (unreadable path,
\* malformed document, missing or empty name or template, or any other
\* rejected field), the registry holds exactly what it held before the call.
C27_FailureLeavesRegistry ==
    (op.name = "load_from_yaml" /\ ret.kind = "raise") => prompts = before

\* C27 witness: loading a document with a name but an empty template failed
\* on a registry that already held a template.
C27_Witness ==
    /\ op.name = "load_from_yaml"
    /\ ret.kind = "raise"
    /\ op.doc.kind = "mapping"
    /\ IsNonEmptyStr(op.doc.args.name)
    /\ ~IsNonEmptyStr(op.doc.args.template)
    /\ before # <<>>

----------------------------------------------------------------------------
(* Claims about what get_prompt_registry hands out *)

\* C28: get_prompt_registry never hands out a registry whose load of the
\* default directory failed: a call that returns normally returns a registry
\* for which that load has completed.
C28_NeverHandsOutFailedLoad ==
    \A t \in MainThread :
        (pc[t] = "idle" /\ outcome[t].kind = "ok") => held[t] \in completed

\* C29: with two threads and no lock, a caller that finds the global already
\* set receives only a registry whose load of the default directory has
\* finished; stated for default directories that hold prompt files, every
\* one of which loads.
C29_PublishedAfterLoad ==
    LET docs == DirectYamlDocs(default_dir.entries)
    IN  ( /\ default_dir.exists
          /\ docs # <<>>
          /\ \A i \in DOMAIN docs : ~FailsToLoad(docs[i]) ) =>
            \A t \in Threads :
                (pc[t] = "idle" /\ outcome[t].kind = "ok" /\ ~sawNone[t]) =>
                    held[t] \in completed

----------------------------------------------------------------------------
(* Schema alignment validators (src/src/schemas/validators.py) *)

\* a type hint: a plain class (no origin), or a generic alias with its
\* origin and its arguments
Plain(name) == [origin |-> "None", name |-> name, args |-> <<>>]
Alias(origin, args) == [origin |-> origin, name |-> "", args |-> args]

TInt == Plain("int")
TFloat == Plain("float")
TStr == Plain("str")
NoneType == Plain("NoneType")
Optional(t) == Alias("Union", <<t, NoneType>>)
ListOf(t) == Alias("list", <<t>>)
UnionOf(t, u) == Alias("Union", <<t, u>>)

\* typing.get_origin, typing.get_args
get_origin(type_hint) == type_hint.origin
get_args(type_hint) == type_hint.args

\* [arg for arg in args if arg is not type(None)]
non_none_args(args) ==
    LET NotNone(arg) == arg # NoneType
    IN  SelectSeq(args, NotNone)

\* _normalize_type: get_origin never yields NoneType, so the first test is
\* never true; an alias of any origin with a single non-None argument is
\* replaced by that argument
normalize_type(type_hint) ==
    LET origin == get_origin(type_hint)
    IN  IF origin = "NoneType" THEN NoneType
        ELSE IF origin # "None" /\ Len(non_none_args(get_args(type_hint))) = 1
        THEN non_none_args(get_args(type_hint))[1]
        ELSE type_hint

\* _unwrap_optional
unwrap_optional(type_hint) ==
    IF /\ get_origin(type_hint) # "None"
       /\ Len(non_none_args(get_args(type_hint))) = 1
    THEN non_none_args(get_args(type_hint))[1]
    ELSE type_hint

\* _types_compatible
types_compatible(type1, type2) ==
    \/ type1 = type2
    \/ unwrap_optional(type1) = unwrap_optional(type2)
    \/ /\ unwrap_optional(type1) \in {TInt, TFloat}
       /\ unwrap_optional(type2) \in {TInt, TFloat}

\* a schema is its model_fields: field name -> annotation
fields(schema) == DOMAIN schema

missing_in_db_Shared(llm_fields, db_fields) == llm_fields \cap db_fields

\* llm_fields - db_fields
missing_in_db(llm_fields, db_fields) == llm_fields \ db_fields

db_only_fields_NoAllowList(llm_fields, db_fields) == db_fields \ llm_fields

\* db_fields - llm_fields - {"id", "created_at", "updated_at"}
db_only_fields(llm_fields, db_fields) ==
    (db_fields \ llm_fields) \ {"id", "created_at", "updated_at"}

MissingMessage(names) == [kind |-> "missing", names |-> names]
ExtraMessage(names) == [kind |-> "extra", names |-> names]
MismatchMessage(field_name, llm_annotation, db_annotation) ==
    [kind |-> "Type mismatch", field |-> field_name,
     llm |-> llm_annotation, db |-> db_annotation]

\* the loop over llm_fields & db_fields, visited in the order the set yields
RECURSIVE CheckShared(_, _, _, _, _)
CheckShared(llm_schema, db_schema, order, i, errors) ==
    IF i > Len(order) THEN errors
    ELSE LET field_name == order[i]
             llm_type == normalize_type(llm_schema[field_name])
             db_type == normalize_type(db_schema[field_name])
         IN  CheckShared(llm_schema, db_schema, order, i + 1,
                 IF ~types_compatible(llm_type, db_type)
                 THEN Append(errors,
                             MismatchMessage(field_name, llm_schema[field_name],
                                             db_schema[field_name]))
                 ELSE errors)

\* validate_schema_alignment; order is the iteration order of the set of
\* shared fields, which Python leaves open
validate_schema_alignment(llm_schema, db_schema, strict, order) ==
    LET llm_fields == fields(llm_schema)
        db_fields == fields(db_schema)
        e1 == IF missing_in_db(llm_fields, db_fields) # {}
              THEN <<MissingMessage(missing_in_db(llm_fields, db_fields))>>
              ELSE <<>>
        e2 == IF strict /\ db_only_fields(llm_fields, db_fields) # {}
              THEN Append(e1, ExtraMessage(db_only_fields(llm_fields, db_fields)))
              ELSE e1
    IN  CheckShared(llm_schema, db_schema, order, 1, e2)

validate_table_has_schema_Once(table_names, schema_registry) ==
    LET Unregistered(i) ==
            /\ table_names[i] \notin schema_registry
            /\ \A j \in 1..(i - 1) : table_names[j] # table_names[i]
        RECURSIVE Scan(_)
        Scan(i) == IF i > Len(table_names) THEN <<>>
                   ELSE IF Unregistered(i)
                   THEN <<[kind |-> "no registered schema",
                           table |-> table_names[i]]>> \o Scan(i + 1)
                   ELSE Scan(i + 1)
    IN  Scan(1)

\* validate_table_has_schema; schema_registry is given by its keys
RECURSIVE validate_table_has_schema(_, _)
validate_table_has_schema(table_names, schema_registry) ==
    IF table_names = <<>> THEN <<>>
    ELSE LET rest == validate_table_has_schema(Tail(table_names),
                                               schema_registry)
         IN  IF Head(table_names) \notin schema_registry
             THEN <<[kind |-> "no registered schema",
                     table |-> Head(table_names)]>> \o rest
             ELSE rest

----------------------------------------------------------------------------
(* SpecValidators: one call of a validator on schemas drawn from a small set *)

\* the annotations a field of each name is drawn from
FieldTypes ==
    [name |-> {TStr, TInt},
     count |-> {TInt, TFloat, TStr, Optional(TInt), ListOf(TInt),
                Optional(ListOf(TInt)), UnionOf(TInt, TStr)},
     id |-> {TInt},
     created_at |-> {TStr},
     updated_at |-> {TStr}]

AllTypes == UNION {FieldTypes[n] : n \in DOMAIN FieldTypes}

\* every schema whose fields are some of these names
Schemas ==
    UNION {{schema \in [names -> AllTypes] :
               \A n \in names : schema[n] \in FieldTypes[n]} :
           names \in SUBSET DOMAIN FieldTypes}

\* the orders in which iterating a set can yield its elements
RECURSIVE Orders(_)
Orders(S) ==
    IF S = {} THEN {<<>>}
    ELSE UNION {{<<x>> \o rest : rest \in Orders(S \ {x})} : x \in S}

TableNames == {"agent_runs", "entities"}

TableLists == SeqsUpTo(TableNames, MaxTables)

InitValidators ==
    /\ tmpl = NoTemplate
    /\ op = [name |-> "init"]
    /\ ret = Ok(<<>>)
    /\ prompts = <<>>
    /\ before = <<>>
    /\ OutsideRegistryIdle

ValidateSchemaAlignment ==
    /\ op.name = "init"
    /\ \E llm_schema \in Schemas, db_schema \in Schemas, strict \in BOOLEAN :
        \E order \in Orders(fields(llm_schema) \cap fields(db_schema)) :
            /\ op' = [name |-> "validate_schema_alignment",
                      llm_schema |-> llm_schema, db_schema |-> db_schema,
                      strict |-> strict]
            /\ ret' = Ok(validate_schema_alignment(llm_schema, db_schema,
                                                   strict, order))
    /\ UNCHANGED <<tmpl, prompts, before, outsideRegistry>>

ValidateTableHasSchema ==
    /\ op.name = "init"
    /\ \E table_names \in TableLists, schema_registry \in SUBSET TableNames :
        /\ op' = [name |-> "validate_table_has_schema",
                  table_names |-> table_names,
                  schema_registry |-> schema_registry]
        /\ ret' = Ok(validate_table_has_schema(table_names, schema_registry))
    /\ UNCHANGED <<tmpl, prompts, before, outsideRegistry>>

NextValidators == ValidateSchemaAlignment \/ ValidateTableHasSchema

SpecValidators == InitValidators /\ [][NextValidators]_vars

----------------------------------------------------------------------------
(* Claims about validate_schema_alignment and validate_table_has_schema *)

OfKind(msgs, kind) == {i \in DOMAIN msgs : msgs[i].kind = kind}

\* C21: for every pair of schemas and either value of strict, a "missing"
\* message is emitted iff some source field is no target field; there is at
\* most one such message and it lists exactly those fields.
C21_MissingInTarget ==
    op.name = "validate_schema_alignment" =>
        LET missing == {f \in DOMAIN op.llm_schema : f \notin DOMAIN op.db_schema}
            said == OfKind(ret.value, "missing")
        IN  /\ (said # {}) <=> (missing # {})
            /\ Cardinality(said) <= 1
            /\ \A i \in said : ret.value[i].names = missing

\* C21 witness: a strict call reported two source fields missing in a target
\* that has fields of its own.
C21_Witness ==
    /\ op.name = "validate_schema_alignment"
    /\ op.strict
    /\ DOMAIN op.db_schema = {"id", "created_at"}
    /\ \E i \in DOMAIN ret.value :
          /\ ret.value[i].kind = "missing"
          /\ ret.value[i].names = {"name", "count"}

\* C22: with strict false, fields only the target has produce no error
\* (source {name}, target {name, id} of the same type: no error at all); with
\* strict true exactly one "extra" message is emitted iff the target has a
\* field that the source lacks and that is none of id, created_at,
\* updated_at, so these three alone never produce an error.
C22_TargetOnlyFields ==
    op.name = "validate_schema_alignment" =>
        LET extra == {f \in DOMAIN op.db_schema :
                         /\ f \notin DOMAIN op.llm_schema
                         /\ f # "id" /\ f # "created_at" /\ f # "updated_at"}
            said == OfKind(ret.value, "extra")
        IN  /\ ~op.strict => said = {}
            /\ ( /\ ~op.strict
                 /\ DOMAIN op.llm_schema \subseteq DOMAIN op.db_schema
                 /\ \A f \in DOMAIN op.llm_schema :
                       op.llm_schema[f] = op.db_schema[f] ) => ret.value = <<>>
            /\ op.strict =>
                  /\ Cardinality(said) = IF extra # {} THEN 1 ELSE 0
                  /\ \A i \in said : ret.value[i].names = extra

\* C22 witness: a strict call on a target that alone has id and count
\* reported count and not id.
C22_Witness ==
    /\ op.name = "validate_schema_alignment"
    /\ op.strict
    /\ DOMAIN op.llm_schema = {"name"}
    /\ DOMAIN op.db_schema = {"name", "id", "count"}
    /\ \E i \in DOMAIN ret.value :
          ret.value[i] = [kind |-> "extra", names |-> {"count"}]

\* a union with NoneType that has a single other member, reduced to it
WithoutOptional(t) ==
    IF /\ t.origin = "Union"
       /\ \E i \in DOMAIN t.args : t.args[i].name = "NoneType"
       /\ Cardinality({i \in DOMAIN t.args : t.args[i].name # "NoneType"}) = 1
    THEN t.args[CHOOSE i \in DOMAIN t.args : t.args[i].name # "NoneType"]
    ELSE t

IsNumeric(t) == t.origin = "None" /\ t.name \in {"int", "float"}

\* C23: for every field both schemas have, a "Type mismatch" error is
\* emitted for it iff the two declared types, with only optional wrappers
\* removed, are neither identical nor both among int and float.
C23_TypeMismatch ==
    op.name = "validate_schema_alignment" =>
        \A f \in DOMAIN op.llm_schema \cap DOMAIN op.db_schema :
            LET t == WithoutOptional(op.llm_schema[f])
                u == WithoutOptional(op.db_schema[f])
                said == {i \in DOMAIN ret.value :
                            /\ ret.value[i].kind = "Type mismatch"
                            /\ ret.value[i].field = f}
            IN  /\ Cardinality(said) <= 1
                /\ (said # {}) <=> ~(t = u \/ (IsNumeric(t) /\ IsNumeric(u)))

\* C24: validate_table_has_schema returns one "no registered schema" error
\* for each element of the list that is no key of the registry, in the
\* order of the list, a name listed twice counting twice, and nothing for a
\* registered name; the result is empty iff every listed name is a key.
C24_TableHasSchema ==
    op.name = "validate_table_has_schema" =>
        LET Unregistered(name) == name \notin op.schema_registry
            expected == SelectSeq(op.table_names, Unregistered)
        IN  /\ Len(ret.value) = Len(expected)
            /\ \A i \in DOMAIN ret.value :
                  /\ ret.value[i].kind = "no registered schema"
                  /\ ret.value[i].table = expected[i]
            /\ (ret.value = <<>>) <=>
                  \A i \in DOMAIN op.table_names :
                      op.table_names[i] \in op.schema_registry

\* C24 witness: an unregistered name listed twice gave two errors.
C24_Witness ==
    /\ op.name = "validate_table_has_schema"
    /\ Len(op.table_names) = 2
    /\ op.table_names[1] = op.table_names[2]
    /\ op.schema_registry # {}
    /\ Len(ret.value) = 2

----------------------------------------------------------------------------
(* get_session (src/src/db/connection.py): the context manager around one *)
(* with block                                                              *)

IsException_Any(type) == type # NoException

\* `except Exception` matches the exception: KeyboardInterrupt and the other
\* direct subclasses of BaseException are not matched
IsException(type) == type \in {"ValueError", "SQLAlchemyError", "ValidationError"}

next_line_NoFinally(at, raised) ==
    CASE at \in {"yield", "commit"} ->
            IF raised = NoException
            THEN (IF at = "yield" THEN "commit" ELSE "close")
            ELSE IF IsException(raised) THEN "rollback" ELSE "close"
      [] at = "rollback" -> IF raised = NoException THEN "close" ELSE "done"
      [] OTHER -> "done"

\* try: yield; commit / except Exception: rollback; raise / finally: close
\* the line control goes to after the step at `at` raised, or did not
next_line(at, raised) ==
    CASE at \in {"yield", "commit"} ->
            IF raised = NoException
            THEN (IF at = "yield" THEN "commit" ELSE "close")
            ELSE IF IsException(raised) THEN "rollback" ELSE "close"
      [] at = "rollback" -> "close"
      [] OTHER -> "done"

\* the exception in flight after a step: the one it raised, else the one
\* that was in flight (the bare `raise`, and the end of `finally`)
in_flight(raised, pending) ==
    IF raised # NoException THEN raised ELSE pending

\* what each step can raise
FactoryRaises == {"ValidationError"}
BodyRaises == {"ValueError", "SQLAlchemyError", "KeyboardInterrupt"}
CommitRaises == {"SQLAlchemyError", "KeyboardInterrupt"}
RollbackRaises == {"SQLAlchemyError", "KeyboardInterrupt"}
CloseRaises == {"SQLAlchemyError", "KeyboardInterrupt"}

InitSession ==
    /\ tmpl = NoTemplate
    /\ op = [name |-> "init"]
    /\ ret = Ok(<<>>)
    /\ prompts = <<>>
    /\ before = <<>>
    /\ SingletonIdle
    /\ default_dir = [exists |-> FALSE, entries |-> <<>>]
    /\ ConfigIdle
    /\ environ = Unset
    /\ dotenv = Unset
    /\ SessionIdle

outsideSession == <<tmpl, op, ret, prompts, before, singletonVars, configVars>>

\* lines 66-67: the factory and the session are made before the try; a
\* failure there leaves no session
Enter ==
    /\ line \in {"idle", "done"}
    /\ \E raised \in {NoException} \cup FactoryRaises :
        /\ raisedBy' = [step \in DOMAIN raisedBy |->
                           IF step = "factory" THEN raised ELSE NoException]
        /\ propagated' = raised
        /\ line' = IF raised = NoException THEN "yield" ELSE "done"
    /\ calls' = <<>>
    /\ UNCHANGED outsideSession

\* the body of the with block uses the session
BodyAdd ==
    /\ line = "yield"
    /\ Len(calls) < MaxAdds
    /\ calls' = Append(calls, "add")
    /\ UNCHANGED <<line, raisedBy, propagated, outsideSession>>

\* line 69: the body ends, normally or by raising into the generator
BodyEnds ==
    /\ line = "yield"
    /\ \E raised \in {NoException} \cup BodyRaises :
        /\ raisedBy' = [raisedBy EXCEPT !["body"] = raised]
        /\ propagated' = in_flight(raised, propagated)
        /\ line' = next_line("yield", raised)
    /\ UNCHANGED <<calls, outsideSession>>

\* line 70: session.commit()
Commit ==
    /\ line = "commit"
    /\ calls' = Append(calls, "commit")
    /\ \E raised \in {NoException} \cup CommitRaises :
        /\ raisedBy' = [raisedBy EXCEPT !["commit"] = raised]
        /\ propagated' = in_flight(raised, propagated)
        /\ line' = next_line("commit", raised)
    /\ UNCHANGED outsideSession

\* lines 72-73: session.rollback(); raise
Rollback ==
    /\ line = "rollback"
    /\ calls' = Append(calls, "rollback")
    /\ \E raised \in {NoException} \cup RollbackRaises :
        /\ raisedBy' = [raisedBy EXCEPT !["rollback"] = raised]
        /\ propagated' = in_flight(raised, propagated)
        /\ line' = next_line("rollback", raised)
    /\ UNCHANGED outsideSession

\* line 75: session.close()
Close ==
    /\ line = "close"
    /\ calls' = Append(calls, "close")
    /\ \E raised \in {NoException} \cup CloseRaises :
        /\ raisedBy' = [raisedBy EXCEPT !["close"] = raised]
        /\ propagated' = in_flight(raised, propagated)
        /\ line' = next_line("close", raised)
    /\ UNCHANGED outsideSession

NextSession ==
    \/ Enter
    \/ BodyAdd
    \/ BodyEnds
    \/ Commit
    \/ Rollback
    \/ Close

SpecSession == InitSession /\ [][NextSession]_vars

----------------------------------------------------------------------------
(* Claims about get_session *)

\* the with block was entered and the context manager has finished
BlockFinished == line = "done" /\ raisedBy["factory"] = NoException

Called(name) == \E i \in 1..Len(calls) : calls[i] = name

\* the exception the body raised, else the one commit raised
FirstRaised ==
    IF raisedBy["body"] # NoException THEN raisedBy["body"] ELSE raisedBy["commit"]

\* C25 as stated: commit is attempted exactly when the body finished without
\* raising; rollback is invoked exactly when the body or the commit raised
\* any exception, and that exception then propagates to the caller; no
\* commit is attempted after the body raised.
C25_RollbackOnAnyException ==
    BlockFinished =>
        /\ Called("commit") <=> raisedBy["body"] = NoException
        /\ Called("rollback") <=> FirstRaised # NoException
        /\ Called("rollback") => propagated = FirstRaised
        /\ raisedBy["body"] # NoException => ~Called("commit")

\* C25 amended: commit is attempted exactly when the body finished without
\* raising; rollback is invoked exactly when the body or the commit raised
\* an exception of class Exception (KeyboardInterrupt and the other bare
\* BaseExceptions skip it); that exception propagates to the caller unless
\* rollback or close raises in turn, and then the later one propagates; an
\* exception always reaches the caller when body or commit raised; no commit
\* is attempted after the body raised.
C25_RollbackOnException ==
    /\ raisedBy["body"] # NoException => ~Called("commit")
    /\ BlockFinished =>
        /\ Called("commit") <=> raisedBy["body"] = NoException
        /\ Called("rollback") <=>
              FirstRaised \notin {NoException, "KeyboardInterrupt"}
        /\ propagated =
              IF raisedBy["close"] # NoException THEN raisedBy["close"]
              ELSE IF raisedBy["rollback"] # NoException THEN raisedBy["rollback"]
              ELSE FirstRaised
        /\ FirstRaised # NoException => propagated # NoException

\* a commit that raised SQLAlchemyError was rolled back and the error
\* reached the caller
C25_Witness ==
    /\ BlockFinished
    /\ raisedBy["body"] = NoException
    /\ raisedBy["commit"] = "SQLAlchemyError"
    /\ calls = <<"add", "commit", "rollback", "close">>
    /\ propagated = "SQLAlchemyError"

\* C26: once the with block was entered, close is called exactly once on
\* every path, as the last call on the session, after any commit or
\* rollback, whether or not one of them raised.
C26_CloseOnceLast ==
    /\ \A i \in 1..Len(calls) : calls[i] = "close" => i = Len(calls)
    /\ BlockFinished =>
        /\ Len(calls) > 0
        /\ calls[Len(calls)] = "close"
        /\ Cardinality({i \in 1..Len(calls) : calls[i] = "close"}) = 1

\* the body raised, rollback raised as well, and the session was still closed
C26_Witness ==
    /\ BlockFinished
    /\ raisedBy["body"] = "ValueError"
    /\ raisedBy["rollback"] = "SQLAlchemyError"
    /\ calls = <<"rollback", "close">>

====
